---- MODULE Spec2Model ----
(***************************************************************************)
(* A model of aria/tokenizer/tokenizer.py: the quantizer, the pedal        *)
(* interval extractor, the duration calculator, the instrument filter,     *)
(* the vocabulary with encode / decode, TokenizerLazy's                    *)
(* tokenize_midi_dict / detokenize_midi_dict and the two augmentation      *)
(* exporters.  Every operation is a pure function of its arguments, so     *)
(* each specification below draws the arguments in its initial state and   *)
(* has one action per call.                                                *)
(***************************************************************************)
EXTENDS Integers, Sequences, FiniteSets, TLC

VARIABLES
    pc,             \* position of the caller: "start", then the call made
    tokenizer,      \* the TokenizerLazy instance (arguments and config)
    midi_dict,      \* the MidiDict handed to tokenize_midi_dict
    tokenized,      \* what tokenize_midi_dict returned or raised, its locals
    decoded,        \* what detokenize_midi_dict returned or raised
    n,              \* _find_closest_int: the integer to snap
    sorted_list,    \* _find_closest_int: the ladder
    closest,        \* _find_closest_int: the value returned
    src,            \* pitch_aug_seq / velocity_aug_seq: the token sequence
    aug_range,      \* the range given to export_pitch_aug / export_velocity_aug
    aug,            \* the sequence returned by the augmentation function
    arg_start_tick, \* _get_duration_ms: the argument start_tick
    arg_end_tick,   \* _get_duration_ms: the argument end_tick
    ret_duration,   \* _get_duration_ms: the value returned and its locals
    arg_tokenized_seq, \* a token sequence handed to detokenize_midi_dict
    encoded         \* what encode returned for each window

vars == <<pc, tokenizer, midi_dict, tokenized, decoded,
          n, sorted_list, closest, src, aug_range, aug,
          arg_start_tick, arg_end_tick, ret_duration, arg_tokenized_seq,
          encoded>>

\* A variable the specification at hand does not use.
Unused == [unused |-> TRUE]

----------------------------------------------------------------------------
\* Python built-ins

Abs(x) == IF x < 0 THEN -x ELSE x

Min(a, b) == IF a < b THEN a ELSE b

Max(a, b) == IF a > b THEN a ELSE b

\* Python's s[i:j] on a list: negative indexes count from the end, indexes
\* are clamped to [0, len], and an empty range gives [].  i, j are 0-based.
SliceIndex(len, i) == IF i < 0 THEN Max(len + i, 0) ELSE Min(i, len)

Slice(s, i, j) ==
    LET lo == SliceIndex(Len(s), i)
        hi == SliceIndex(Len(s), j)
    IN  IF lo >= hi THEN <<>> ELSE SubSeq(s, lo + 1, hi)

\* Python's [x] * k: the empty list when k <= 0.
Repeat(x, k) == [i \in 1..Max(k, 0) |-> x]

\* Python's round() of the rational num/den (den > 0): nearest integer,
\* halves to the even neighbour.
Round(num, den) ==
    LET q == num \div den
        r == num % den
    IN  IF 2 * r < den THEN q
        ELSE IF 2 * r > den THEN q + 1
        ELSE IF q % 2 = 0 THEN q ELSE q + 1

\* The permutations of a finite set, as sequences: the orders list(set(..))
\* can produce.
Orders(S) ==
    {s \in [1..Cardinality(S) -> S] : \A i, j \in DOMAIN s : i # j => s[i] # s[j]}

RECURSIVE Concat(_)
Concat(ss) == IF ss = <<>> THEN <<>> ELSE Head(ss) \o Concat(Tail(ss))

----------------------------------------------------------------------------
\* Tokens.  A Python token is a str (special tokens, instrument names), a
\* 2-tuple ("dur" | "wait" | "drum", value) or a 3-tuple
\* (instrument, pitch, velocity).  tok[0], tok[1], tok[2] are a, b, c.

Str(s) == [t |-> "str", a |-> s, b |-> 0, c |-> 0]

Tup2(x, y) == [t |-> "tuple2", a |-> x, b |-> y, c |-> 0]

Tup3(x, y, z) == [t |-> "tuple3", a |-> x, b |-> y, c |-> z]

bos_tok == Str("<S>")

eos_tok == Str("<E>")

pad_tok == Str("<P>")

unk_tok == Str("<U>")

special_tokens == {bos_tok, eos_tok, pad_tok, unk_tok}

InstrumentClasses ==
    <<"piano", "chromatic", "organ", "guitar", "bass", "strings", "ensemble",
      "brass", "reed", "pipe", "synth_lead", "synth_pad", "synth_effect",
      "ethnic", "percussive", "sfx">>

\* program_to_instrument: eight consecutive programs per class.
program_to_instrument(p) == InstrumentClasses[(p \div 8) + 1]

DrumChannels == {9, 16}

----------------------------------------------------------------------------
\* Quantizer

\* closest starts as float("inf"): every finite difference is below
\* abs(inf - n).
InfClosest == [inf |-> TRUE, v |-> 0]

\* The comparison of line 273 with <= : the last of two equally close wins.
CloserOrEqual(diff, c, k) == c.inf \/ diff <= Abs(c.v - k)

\* The comparison of line 273 turned round: the farthest probe wins.
Farther(diff, c, k) == c.inf \/ diff > Abs(c.v - k)

\* diff < abs(closest - n) (line 273).
Closer(diff, c, k) == c.inf \/ diff < Abs(c.v - k)

\* The while loop of _find_closest_int; left, right and mid are 0-based.
RECURSIVE FindLoop(_, _, _, _, _)
FindLoop(k, l, left, right, c) ==
    IF left > right THEN c
    ELSE LET mid == (left + right) \div 2
             diff == Abs(l[mid + 1] - k)
             c2 == IF Closer(diff, c, k)
                   THEN [inf |-> FALSE, v |-> l[mid + 1]] ELSE c
         IN  IF l[mid + 1] < k
             THEN FindLoop(k, l, mid + 1, right, c2)
             ELSE FindLoop(k, l, left, mid - 1, c2)

_find_closest(k, l) == FindLoop(k, l, 0, Len(l) - 1, InfClosest)

\* On a non-empty ladder the result is finite.
_find_closest_int(k, l) == _find_closest(k, l).v

\* The 0-based indexes _find_closest_int looks at, in order.
RECURSIVE Probes(_, _, _, _)
Probes(k, l, left, right) ==
    IF left > right THEN <<>>
    ELSE LET mid == (left + right) \div 2
         IN  <<mid>> \o (IF l[mid + 1] < k
                         THEN Probes(k, l, mid + 1, right)
                         ELSE Probes(k, l, left, mid - 1))

----------------------------------------------------------------------------
\* TokenizerLazy.__init__: the ladders derived from the configuration.  tk is
\* the tokenizer: padding, truncate_type, max_seq_len, stride_len and the
\* configuration read by load_config (ignore_instruments as the set of the
\* classes flagged true, min_time_step, num_time_step, velocity_step).

time_step_quantizations(tk) ==
    [i \in 1..tk.num_time_step |-> tk.min_time_step * (i - 1)]

max_time_step(tk) == time_step_quantizations(tk)[tk.num_time_step]

velocity_quantizations(tk) ==
    [i \in 1..((127 \div tk.velocity_step) + 1) |-> (i - 1) * tk.velocity_step]

max_velocity(tk) ==
    velocity_quantizations(tk)[(127 \div tk.velocity_step) + 1]

\* Tokenizer.__init__'s assertions.
ValidTokenizer(tk) ==
    /\ tk.truncate_type \in {"none", "default", "strided"}
    /\ tk.truncate_type = "strided" =>
          (0 < tk.stride_len /\ tk.stride_len < tk.max_seq_len)

_quantize_time(tk, time) == _find_closest_int(time, time_step_quantizations(tk))

_quantize_velocity(tk, velocity) ==
    LET velocity_quantized ==
            _find_closest_int(velocity, velocity_quantizations(tk))
    IN  IF velocity_quantized = 0 /\ velocity # 0
        THEN tk.velocity_step ELSE velocity_quantized

----------------------------------------------------------------------------
\* Duration calculator.  tick2second(tick, ticks_per_beat, tempo) is
\* tick * tempo * 1e-6 / ticks_per_beat, so the sum of the segments is kept
\* as the integer sum of delta_tick * tempo (microseconds * ticks_per_beat).
\* The arithmetic is exact: the rounding error of the float sum, which can
\* move a value lying on a half millisecond to either side, is left out.

\* The first for loop: the 0-based idx at the break, or the last index.
RECURSIVE TempoBreakIdx(_, _, _)
TempoBreakIdx(start_tick, tempo_msgs, i) ==
    IF i = Len(tempo_msgs) - 1 \/ start_tick <= tempo_msgs[i + 1].tick
    THEN i ELSE TempoBreakIdx(start_tick, tempo_msgs, i + 1)

TempoStartIdx(start_tick, tempo_msgs) ==
    LET idx == TempoBreakIdx(start_tick, tempo_msgs, 0)
    IN  IF idx > 0 THEN idx - 1 ELSE idx

\* The zip loop over (tempo_msgs[k], tempo_msgs[k + 1]), k 0-based.
RECURSIVE TempoLoop(_, _, _, _, _)
TempoLoop(end_tick, tempo_msgs, k, curr_tick, duration) ==
    IF k + 1 > Len(tempo_msgs) - 1
    THEN [curr_tick |-> curr_tick, duration |-> duration]
    ELSE LET curr_tempo == tempo_msgs[k + 1].data
             next_tick == tempo_msgs[k + 2].tick
         IN  IF end_tick < next_tick
             THEN [curr_tick |-> curr_tick,
                   duration |-> duration + (end_tick - curr_tick) * curr_tempo]
             ELSE TempoLoop(end_tick, tempo_msgs, k + 1, next_tick,
                            duration + (next_tick - curr_tick) * curr_tempo)

\* The duration before the conversion to milliseconds and the rounding, in
\* units of 1 / ticks_per_beat microseconds.
DurationTickTempo(start_tick, end_tick, tempo_msgs) ==
    LET idx == TempoStartIdx(start_tick, tempo_msgs)
        l == TempoLoop(end_tick, tempo_msgs, idx, start_tick, 0)
        last == tempo_msgs[Len(tempo_msgs)]
    IN  IF end_tick > last.tick
        THEN l.duration + (end_tick - l.curr_tick) * last.data
        ELSE l.duration

_get_duration_ms(start_tick, end_tick, tempo_msgs, ticks_per_beat) ==
    Round(DurationTickTempo(start_tick, end_tick, tempo_msgs),
          ticks_per_beat * 1000)

----------------------------------------------------------------------------
\* _remove_instruments.  A MidiDict is a record of ticks_per_beat and the
\* message lists tempo_msgs [tick, data], pedal_msgs [tick, channel, data],
\* instrument_msgs [channel, data] and note_msgs [channel, pitch, velocity,
\* start, end].

programs_to_remove(tk) ==
    {i \in 1..127 : program_to_instrument(i) \in tk.ignore_instruments}

channels_to_remove(tk, md) ==
    LET programs == programs_to_remove(tk)
    IN  {md.instrument_msgs[i].channel : i \in
            {j \in DOMAIN md.instrument_msgs :
                md.instrument_msgs[j].data \in programs}}
        \ DrumChannels

\* msg.get("channel", -1) not in channels_to_remove (line 227).
Kept(removed, msg) == msg.channel \notin removed

_remove_instruments(tk, md) ==
    LET removed == channels_to_remove(tk, md)
    IN  [ticks_per_beat |-> md.ticks_per_beat,
         tempo_msgs |-> md.tempo_msgs,
         pedal_msgs |-> SelectSeq(md.pedal_msgs, LAMBDA msg : Kept(removed, msg)),
         instrument_msgs |->
             SelectSeq(md.instrument_msgs, LAMBDA msg : Kept(removed, msg)),
         note_msgs |-> SelectSeq(md.note_msgs, LAMBDA msg : Kept(removed, msg))]

----------------------------------------------------------------------------
\* _build_pedal_intervals

Channels == 0..16

\* pedal_status: <<>> for a channel with no entry, <<tick>> for a pedal down.
NoPedal == [c \in Channels |-> <<>>]

\* The for loop over pedal_msgs, from message i on.
RECURSIVE PedalScan(_, _, _, _)
PedalScan(pedal_msgs, i, intervals, pedal_status) ==
    IF i > Len(pedal_msgs)
    THEN [intervals |-> intervals, pedal_status |-> pedal_status]
    ELSE LET tick == pedal_msgs[i].tick
             channel == pedal_msgs[i].channel
             data == pedal_msgs[i].data
         IN  IF data = 1 /\ pedal_status[channel] = <<>>
             THEN PedalScan(pedal_msgs, i + 1, intervals,
                            [pedal_status EXCEPT ![channel] = <<tick>>])
             ELSE IF data = 0 /\ pedal_status[channel] # <<>>
             THEN PedalScan(pedal_msgs, i + 1,
                            [intervals EXCEPT ![channel] =
                                Append(@, <<pedal_status[channel][1], tick>>)],
                            [pedal_status EXCEPT ![channel] = <<>>])
             ELSE PedalScan(pedal_msgs, i + 1, intervals, pedal_status)

\* Raises IndexError at note_msgs[-1] when there is no note, after the scan.
_build_pedal_intervals(md) ==
    LET scan == PedalScan(md.pedal_msgs, 1, [c \in Channels |-> <<>>], NoPedal)
    IN  IF md.note_msgs = <<>>
        THEN [err |-> "IndexError", scanned |-> Len(md.pedal_msgs),
              intervals |-> scan.intervals]
        ELSE LET final_tick == md.note_msgs[Len(md.note_msgs)].end
             IN  [err |-> "",
                  scanned |-> Len(md.pedal_msgs),
                  intervals |->
                     [c \in Channels |->
                         IF scan.pedal_status[c] = <<>>
                         THEN scan.intervals[c]
                         ELSE Append(scan.intervals[c],
                                     <<scan.pedal_status[c][1], final_tick>>)]]

----------------------------------------------------------------------------
\* tokenize_midi_dict

\* The dict comprehension of lines 305-309: the last declaration of a
\* channel wins; <<>> when the channel has no entry.
channel_to_instrument(md, channel) ==
    LET decls == SelectSeq(md.instrument_msgs,
                           LAMBDA msg : /\ msg.channel \notin DrumChannels
                                        /\ msg.channel = channel)
    IN  IF decls = <<>> THEN <<>>
        ELSE <<program_to_instrument(decls[Len(decls)].data)>>

channels_used(md) ==
    {md.instrument_msgs[i].channel : i \in DOMAIN md.instrument_msgs}

\* The members of present_instruments before list(set(...)) orders them.
present_instruments_set(md) ==
    {Str(program_to_instrument(md.instrument_msgs[i].data)) : i \in
        {j \in DOMAIN md.instrument_msgs :
            md.instrument_msgs[j].channel \notin DrumChannels}}
    \cup (IF 9 \in channels_used(md) \/ 16 \in channels_used(md)
          THEN {Str("drums")} ELSE {})

\* The pedal condition without the test on the onset.
PedalCoversAny(pedal_start, pedal_end, _start_tick, _end_tick) ==
    _end_tick < pedal_end

\* The condition of lines 350-353.
PedalCovers(pedal_start, pedal_end, _start_tick, _end_tick) ==
    /\ pedal_start <= _start_tick /\ _start_tick < pedal_end
    /\ _end_tick < pedal_end

\* The for loop of lines 343-354 over the intervals of the note's channel.
RECURSIVE PedalEndTick(_, _, _, _)
PedalEndTick(pedal_intervals, j, _start_tick, _end_tick) ==
    IF j > Len(pedal_intervals) THEN _end_tick
    ELSE PedalEndTick(pedal_intervals, j + 1, _start_tick,
             IF PedalCovers(pedal_intervals[j][1], pedal_intervals[j][2],
                            _start_tick, _end_tick)
             THEN pedal_intervals[j][2] ELSE _end_tick)

\* The while loop of lines 383-385: the tokens appended and what is left.
RECURSIVE WaitLoop(_, _, _)
WaitLoop(tk, toks, _wait_duration) ==
    IF _wait_duration > max_time_step(tk)
    THEN WaitLoop(tk, Append(toks, Tup2("wait", max_time_step(tk))),
                  _wait_duration - max_time_step(tk))
    ELSE [toks |-> toks, _wait_duration |-> _wait_duration]

\* The remainder token appended whatever its value.
RemainderAlways(tk, _wait_duration) ==
    <<Tup2("wait", _quantize_time(tk, _wait_duration))>>

\* Lines 388-390: the remainder token.
RemainderTok(tk, _wait_duration) ==
    LET q == _quantize_time(tk, _wait_duration)
    IN  IF q # 0 THEN <<Tup2("wait", q)>> ELSE <<>>

\* One iteration of the loop over note_msgs (lines 328-390), i 1-based.
NoteStep(tk, md, intervals, i) ==
    LET msg == md.note_msgs[i]
        drum == msg.channel \in DrumChannels
        _instrument == channel_to_instrument(md, msg.channel)
        _end_tick == PedalEndTick(intervals[msg.channel], 1, msg.start, msg.end)
        _note_duration ==
            _quantize_time(tk, _get_duration_ms(msg.start, _end_tick,
                                                md.tempo_msgs, md.ticks_per_beat))
        raw == IF i <= Len(md.note_msgs) - 1
               THEN _get_duration_ms(msg.start, md.note_msgs[i + 1].start,
                                     md.tempo_msgs, md.ticks_per_beat)
               ELSE 0
        loop == WaitLoop(tk, <<>>, raw)
    IN  [err |-> IF ~drum /\ _instrument = <<>> THEN "KeyError" ELSE "",
         drum |-> drum,
         end_tick |-> IF drum THEN msg.end ELSE _end_tick,
         toks |-> IF drum THEN <<Tup2("drum", msg.pitch)>>
                  ELSE IF _instrument = <<>> THEN <<>>
                  ELSE <<Tup3(_instrument[1], msg.pitch,
                              _quantize_velocity(tk, msg.velocity)),
                         Tup2("dur", IF _note_duration = 0
                                     THEN tk.min_time_step ELSE _note_duration)>>,
         has_wait |-> i <= Len(md.note_msgs) - 1,
         raw_wait |-> raw,
         loops |-> Len(loop.toks),
         wait_toks |-> IF i <= Len(md.note_msgs) - 1
                       THEN loop.toks \o RemainderTok(tk, loop._wait_duration)
                       ELSE <<>>]

\* The condition of the while loop with <= for < .
StrideContinuesInclusive(tk, idx, prefix_len, seq_len) ==
    idx + tk.max_seq_len - prefix_len <= seq_len

\* The condition of the while loop (line 419).
StrideContinues(tk, idx, prefix_len, seq_len) ==
    idx + tk.max_seq_len - prefix_len < seq_len

\* The while loop of lines 419-424.
RECURSIVE StridedLoop(_, _, _, _, _)
StridedLoop(tk, present_instruments, _res, res, idx) ==
    LET prefix_len == Len(present_instruments)
    IN  IF StrideContinues(tk, idx, prefix_len, Len(_res))
        THEN StridedLoop(tk, present_instruments, _res,
                 Append(res, present_instruments
                             \o Slice(_res, idx, idx + tk.max_seq_len - prefix_len)),
                 idx + tk.stride_len)
        ELSE [res |-> res, idx |-> idx]

\* Lines 393-436: the windows returned for the three truncate types.
Windows(tk, present_instruments, tokenized_seq) ==
    LET full == present_instruments \o <<bos_tok>> \o tokenized_seq \o <<eos_tok>>
        body == <<bos_tok>> \o tokenized_seq \o <<eos_tok>>
    IN  IF tk.truncate_type = "none" THEN <<full>>
        ELSE IF tk.truncate_type = "default"
        THEN LET _res == IF tk.padding
                         THEN full \o Repeat(pad_tok, tk.max_seq_len - Len(full))
                         ELSE full
             IN  <<Slice(_res, 0, tk.max_seq_len)>>
        ELSE LET l == StridedLoop(tk, present_instruments, body, <<>>, 0)
                 _seq == present_instruments
                         \o Slice(body, l.idx,
                                  l.idx + tk.max_seq_len - Len(present_instruments))
             IN  Append(l.res,
                        IF tk.padding
                        THEN _seq \o Repeat(pad_tok, tk.max_seq_len - Len(_seq))
                        ELSE _seq)

\* tokenize_midi_dict(midi_dict) of tokenizer tk, with present_instruments
\* the order list(set(...)) gave.  err names the exception raised, "" when
\* the call returns; the other fields besides windows are its locals.
tokenize_midi_dict(tk, md0, present_instruments) ==
    LET md == _remove_instruments(tk, md0)
        bp == _build_pedal_intervals(md)
        steps == [i \in 1..Len(md.note_msgs) |->
                     NoteStep(tk, md, bp.intervals, i)]
        tokenized_seq ==
            Concat([i \in 1..Len(steps) |-> steps[i].toks \o steps[i].wait_toks])
        err == IF bp.err # "" THEN bp.err
               ELSE IF \E i \in DOMAIN steps : steps[i].err # "" THEN "KeyError"
               ELSE ""
    IN  [err |-> err,
         windows |-> IF err = ""
                     THEN Windows(tk, present_instruments, tokenized_seq)
                     ELSE <<>>,
         filtered |-> md,
         pedal_msgs_scanned |-> bp.scanned,
         intervals |-> bp.intervals,
         steps |-> IF bp.err = "" THEN steps ELSE <<>>,
         present_instruments |-> present_instruments,
         tokenized_seq |-> IF err = "" THEN tokenized_seq ELSE <<>>]

----------------------------------------------------------------------------
\* detokenize_midi_dict

\* The keys of config["instrument_programs"]: one program per class.
instrument_names == {InstrumentClasses[i] : i \in DOMAIN InstrumentClasses}

\* The first for loop (lines 465-482), idx 0-based.  instrument_to_channel
\* is a function from names to channels; start is <<>> while unbound.
RECURSIVE PrefixScan(_, _, _)
PrefixScan(tokenized_seq, idx, instrument_to_channel) ==
    IF idx >= Len(tokenized_seq)
    THEN [err |-> "", start |-> <<>>,
          instrument_to_channel |-> instrument_to_channel]
    ELSE LET tok == tokenized_seq[idx + 1]
         IN  IF tok.t = "str" /\ tok.a \in instrument_names
             THEN IF tok.a \in DOMAIN instrument_to_channel
                  THEN [err |-> "AssertionError", start |-> <<>>,
                        instrument_to_channel |-> instrument_to_channel]
                  ELSE PrefixScan(tokenized_seq, idx + 1,
                                  (tok.a :> idx) @@ instrument_to_channel)
             ELSE IF tok \in special_tokens \/ tok = Str("drums")
             THEN PrefixScan(tokenized_seq, idx + 1, instrument_to_channel)
             ELSE [err |-> "", start |-> <<idx>>,
                   instrument_to_channel |-> instrument_to_channel]

\* int(second2tick(1e-3 * ms, ticks_per_beat = 480, tempo = 500000)).
MsToTick(ms) == (ms * 480 * 1000) \div 500000

\* A decoded note message.
NoteMsg(pitch, start, end, velocity, channel) ==
    [pitch |-> pitch, start |-> start, end |-> end, velocity |-> velocity,
     channel |-> channel]

\* The loop over zip(tokenized_seq[start:], tokenized_seq[start + 1:])
\* (lines 487-555); k is the 1-based position of curr_tok.
RECURSIVE NoteScan(_, _, _, _, _, _)
NoteScan(tk, tokenized_seq, instrument_to_channel, k, curr_tick, note_msgs) ==
    IF k + 1 > Len(tokenized_seq)
    THEN [err |-> "", note_msgs |-> note_msgs]
    ELSE
      LET curr_tok == tokenized_seq[k]
          next_tok == tokenized_seq[k + 1]
      IN  IF curr_tok \in special_tokens \/ (curr_tok.t # "str" /\ curr_tok.a = "dur")
          THEN NoteScan(tk, tokenized_seq, instrument_to_channel, k + 1,
                        curr_tick, note_msgs)
          ELSE IF curr_tok.t # "str" /\ curr_tok.a = "wait"
          THEN NoteScan(tk, tokenized_seq, instrument_to_channel, k + 1,
                        curr_tick + MsToTick(curr_tok.b), note_msgs)
          ELSE IF curr_tok.t # "str" /\ curr_tok.a = "drum"
          THEN NoteScan(tk, tokenized_seq, instrument_to_channel, k + 1,
                        curr_tick,
                        Append(note_msgs,
                               NoteMsg(curr_tok.b, curr_tick,
                                       curr_tick + tk.min_time_step,
                                       tk.drum_velocity,
                                       instrument_to_channel["drum"])))
          ELSE IF curr_tok.t # "tuple3"
                  \/ curr_tok.a \notin DOMAIN instrument_to_channel
          THEN [err |-> "KeyError", note_msgs |-> note_msgs]
          ELSE IF next_tok.t = "str"
          THEN [err |-> "TypeError", note_msgs |-> note_msgs]
          ELSE NoteScan(tk, tokenized_seq, instrument_to_channel, k + 1,
                        curr_tick,
                        Append(note_msgs,
                               NoteMsg(curr_tok.b, curr_tick,
                                       curr_tick + MsToTick(next_tok.b),
                                       curr_tok.c,
                                       instrument_to_channel[curr_tok.a])))

\* The scan started one token late.
NoteScanLate(tk, tokenized_seq, instrument_to_channel, start) ==
    NoteScan(tk, tokenized_seq, instrument_to_channel, start + 2, 0, <<>>)

\* The scan from tokenized_seq[start] on, start 0-based (lines 485-489).
NoteMsgs(tk, tokenized_seq, instrument_to_channel, start) ==
    NoteScan(tk, tokenized_seq, instrument_to_channel, start + 1, 0, <<>>)

\* detokenize_midi_dict(tokenized_seq): err names the exception raised.
detokenize_midi_dict(tk, tokenized_seq) ==
    LET prefix == PrefixScan(tokenized_seq, 0, "drum" :> 9)
    IN  IF prefix.err # ""
        THEN [err |-> prefix.err, note_msgs |-> <<>>,
              instrument_to_channel |-> prefix.instrument_to_channel]
        ELSE IF prefix.start = <<>>
        THEN [err |-> "UnboundLocalError", note_msgs |-> <<>>,
              instrument_to_channel |-> prefix.instrument_to_channel]
        ELSE LET notes == NoteMsgs(tk, tokenized_seq,
                                   prefix.instrument_to_channel, prefix.start[1])
             IN  [err |-> notes.err,
                  note_msgs |-> IF notes.err = "" THEN notes.note_msgs ELSE <<>>,
                  instrument_to_channel |-> prefix.instrument_to_channel]

----------------------------------------------------------------------------
\* Augmentation exporters

\* _tok_type of pitch_aug_tok / velocity_aug_tok: "special" for a str.
AugTokType(tok) == IF tok.t = "str" THEN "special" ELSE tok.a

Unchanged(tok) == AugTokType(tok) \in {"special", "dur", "drum", "wait"}

\* The shifted pitch kept whatever its value.
PitchShiftUnchecked(tok, _pitch_aug) == Tup3(tok.a, tok.b + _pitch_aug, tok.c)

\* Lines 601-606.
PitchShift(tok, _pitch_aug) ==
    IF 0 <= tok.b + _pitch_aug /\ tok.b + _pitch_aug <= 127
    THEN Tup3(tok.a, tok.b + _pitch_aug, tok.c)
    ELSE unk_tok

pitch_aug_tok(tok, _pitch_aug) ==
    IF Unchanged(tok) THEN tok ELSE PitchShift(tok, _pitch_aug)

pitch_aug_seq(s, pitch_aug) == [i \in DOMAIN s |-> pitch_aug_tok(s[i], pitch_aug)]

\* Lines 654-662.
VelocityShift(tk, tok, _velocity_aug) ==
    IF tok.c + _velocity_aug >= max_velocity(tk)
    THEN Tup3(tok.a, tok.b, max_velocity(tk))
    ELSE IF tok.c + _velocity_aug <= tk.velocity_step
    THEN Tup3(tok.a, tok.b, tk.velocity_step)
    ELSE Tup3(tok.a, tok.b, tok.c + _velocity_aug)

velocity_aug_tok(tk, tok, _velocity_aug) ==
    IF Unchanged(tok) THEN tok ELSE VelocityShift(tk, tok, _velocity_aug)

velocity_aug_seq(tk, s, velocity_aug) ==
    [i \in DOMAIN s |-> velocity_aug_tok(tk, s[i], velocity_aug)]

----------------------------------------------------------------------------
\* The vocabulary (TokenizerLazy.__init__, lines 143-178) and encode /
\* decode.  vocab is special_tokens + instrument_tokens + note_tokens +
\* drum_tokens + wait_tokens and tok_to_id numbers it from 0, so the id of a
\* token is computed from its place in its block.  The classes of
\* config["ignore_instruments"] are taken in the order of InstrumentClasses.

instrument_tokens(tk) ==
    SelectSeq(InstrumentClasses, LAMBDA k : k \notin tk.ignore_instruments)
    \o <<"drums">>

\* The 0-based index of x in the list l, -1 when l does not hold x.
IndexOf(l, x) ==
    IF \E i \in DOMAIN l : l[i] = x
    THEN (CHOOSE i \in DOMAIN l : l[i] = x) - 1 ELSE -1

\* The ids at which the blocks of vocab start.
instrument_base == 4

note_base(tk) == instrument_base + Len(instrument_tokens(tk))

drum_base(tk) ==
    note_base(tk)
        + Len(instrument_tokens(tk)) * 128 * Len(velocity_quantizations(tk))

wait_base(tk) == drum_base(tk) + (82 - 35)

vocab_size(tk) == wait_base(tk) + Len(time_step_quantizations(tk))

\* tok_to_id.get(tok, -1): the index of tok in vocab, -1 for a token that
\* vocab does not hold.
tok_to_id(tk, tok) ==
    IF tok.t = "str"
    THEN IF tok \in special_tokens
         THEN IndexOf(<<bos_tok, eos_tok, pad_tok, unk_tok>>, tok)
         ELSE IF IndexOf(instrument_tokens(tk), tok.a) >= 0
         THEN instrument_base + IndexOf(instrument_tokens(tk), tok.a)
         ELSE -1
    ELSE IF tok.t = "tuple3"
    THEN LET ii == IndexOf(instrument_tokens(tk), tok.a)
             vi == IndexOf(velocity_quantizations(tk), tok.c)
         IN  IF ii >= 0 /\ tok.b \in 0..127 /\ vi >= 0
             THEN note_base(tk)
                    + (ii * 128 + tok.b) * Len(velocity_quantizations(tk)) + vi
             ELSE -1
    ELSE IF tok.a = "drum"
    THEN IF tok.b \in 35..81 THEN drum_base(tk) + (tok.b - 35) ELSE -1
    ELSE IF tok.a = "wait"
    THEN LET wi == IndexOf(time_step_quantizations(tk), tok.b)
         IN  IF wi >= 0 THEN wait_base(tk) + wi ELSE -1
    ELSE -1

\* _enc_fn(tok): tok_to_id.get(tok, tok_to_id[unk_tok]).
_enc_fn(tk, tok) ==
    IF tok_to_id(tk, tok) >= 0 THEN tok_to_id(tk, tok) ELSE tok_to_id(tk, unk_tok)

\* _dec_fn(id): id_to_tok.get(id, unk_tok).
_dec_fn(tk, id) ==
    IF id < 0 \/ id >= vocab_size(tk) THEN unk_tok
    ELSE IF id < instrument_base
    THEN <<bos_tok, eos_tok, pad_tok, unk_tok>>[id + 1]
    ELSE IF id < note_base(tk)
    THEN Str(instrument_tokens(tk)[id - instrument_base + 1])
    ELSE IF id < drum_base(tk)
    THEN LET k == id - note_base(tk)
             nv == Len(velocity_quantizations(tk))
         IN  Tup3(instrument_tokens(tk)[(k \div (128 * nv)) + 1],
                  (k \div nv) % 128,
                  velocity_quantizations(tk)[(k % nv) + 1])
    ELSE IF id < wait_base(tk)
    THEN Tup2("drum", 35 + (id - drum_base(tk)))
    ELSE Tup2("wait", time_step_quantizations(tk)[id - wait_base(tk) + 1])

encode(tk, unencoded_seq) ==
    [i \in DOMAIN unencoded_seq |-> _enc_fn(tk, unencoded_seq[i])]

decode(tk, encoded_seq) ==
    [i \in DOMAIN encoded_seq |-> _dec_fn(tk, encoded_seq[i])]

----------------------------------------------------------------------------
\* The calls: one action per call of a method, the whole call in one step.

\* tokenize_midi_dict(midi_dict).  list(set(...)) may give any order.
TokenizeMidiDict ==
    /\ pc = "start"
    /\ \E present_instruments \in
            Orders(present_instruments_set(_remove_instruments(tokenizer, midi_dict))) :
          tokenized' = tokenize_midi_dict(tokenizer, midi_dict, present_instruments)
    /\ pc' = IF tokenized'.err = "" THEN "tokenized" ELSE "raised"
    /\ UNCHANGED <<tokenizer, midi_dict, decoded, n, sorted_list, closest,
                   src, aug_range, aug,
                   arg_start_tick, arg_end_tick, ret_duration,
                   arg_tokenized_seq, encoded>>

\* detokenize_midi_dict(window) on a window tokenize_midi_dict returned.
DetokenizeMidiDict ==
    /\ pc = "tokenized"
    /\ \E w \in DOMAIN tokenized.windows :
          decoded' = detokenize_midi_dict(tokenizer, tokenized.windows[w])
    /\ pc' = "detokenized"
    /\ UNCHANGED <<tokenizer, midi_dict, tokenized, n, sorted_list, closest,
                   src, aug_range, aug,
                   arg_start_tick, arg_end_tick, ret_duration,
                   arg_tokenized_seq, encoded>>

\* The configuration of the tokenizer: the arguments of __init__ and the
\* values read from the configuration file.
Tokenizer(padding, truncate_type, max_seq_len, stride_len, ignore_instruments, min_time_step, num_time_step) ==
    [padding |-> padding, truncate_type |-> truncate_type,
     max_seq_len |-> max_seq_len, stride_len |-> stride_len,
     ignore_instruments |-> ignore_instruments,
     min_time_step |-> min_time_step, num_time_step |-> num_time_step,
     velocity_step |-> 10, drum_velocity |-> 60]

Note(channel, pitch, velocity, start, end) ==
    [channel |-> channel, pitch |-> pitch, velocity |-> velocity,
     start |-> start, end |-> end]

\* One tempo, 500000 us per beat, and 500 ticks per beat: a tick is 1 ms.
MidiDict(note_msgs, pedal_msgs, instrument_msgs) ==
    [ticks_per_beat |-> 500,
     tempo_msgs |-> <<[tick |-> 0, data |-> 500000]>>,
     pedal_msgs |-> pedal_msgs,
     instrument_msgs |-> instrument_msgs,
     note_msgs |-> note_msgs]

\* The sequences over S of length 0..k.
SeqsUpTo(S, k) == UNION {[1..j -> S] : j \in 0..k}

----------------------------------------------------------------------------
\* The variables a specification does not use.

NoTokenize ==
    /\ tokenizer = Unused /\ midi_dict = Unused
    /\ tokenized = Unused /\ decoded = Unused

NoQuantize == n = Unused /\ sorted_list = Unused /\ closest = Unused

NoAug == src = Unused /\ aug_range = Unused /\ aug = Unused

NoDuration ==
    arg_start_tick = Unused /\ arg_end_tick = Unused /\ ret_duration = Unused

NoEncode == arg_tokenized_seq = Unused /\ encoded = Unused

\* A piano declared on channels 0 and 1.
TwoPianos == <<[channel |-> 0, data |-> 0], [channel |-> 1, data |-> 0]>>

----------------------------------------------------------------------------
\* Specification SpecPedal: tokenize_midi_dict on streams with pedal
\* messages on channels 0 and 1, ordered by tick, and up to two notes whose
\* end ticks vary (the extractor reads the end of the last note only).

MaxTick == 2

MaxPedalMsgs == 3

PedalMsgLists ==
    {l \in SeqsUpTo([tick : 0..MaxTick, channel : {0, 1}, data : {0, 1}],
                    MaxPedalMsgs) :
        \A i \in 1..(Len(l) - 1) : l[i].tick <= l[i + 1].tick}

PedalNoteLists ==
    SeqsUpTo({Note(0, 60, 64, 0, e) : e \in 0..MaxTick}, 2)

InitPedal ==
    /\ pc = "start"
    /\ tokenizer = Tokenizer(FALSE, "none", 8, 0, {}, 10, 11)
    /\ \E notes \in PedalNoteLists, pedals \in PedalMsgLists :
          midi_dict = MidiDict(notes, pedals, TwoPianos)
    /\ tokenized = Unused /\ decoded = Unused
    /\ NoQuantize /\ NoAug /\ NoDuration /\ NoEncode

NextPedal == TokenizeMidiDict

SpecPedal == InitPedal /\ [][NextPedal]_vars

----------------------------------------------------------------------------
\* Specification SpecExtend: tokenize_midi_dict on streams with pedal
\* messages on channel 0, ordered by tick, and a note on channel 0 or 1,
\* alone or followed by a note on channel 1 that sets the final tick.

MaxExtendPedalMsgs == 3

ExtendPedalMsgLists ==
    {l \in SeqsUpTo([tick : 0..MaxTick, channel : {0}, data : {0, 1}],
                    MaxExtendPedalMsgs) :
        \A i \in 1..(Len(l) - 1) : l[i].tick <= l[i + 1].tick}

ExtendNoteLists ==
    LET notes == {Note(c, 60, 64, s, e) : c \in {0, 1}, s \in 0..MaxTick,
                                          e \in 0..MaxTick}
        sound == {x \in notes : x.start <= x.end}
    IN  {<<x>> : x \in sound}
        \cup {<<x, Note(1, 62, 64, x.start, e)>> : x \in sound, e \in {0, MaxTick}}

InitExtend ==
    /\ pc = "start"
    /\ tokenizer = Tokenizer(FALSE, "none", 8, 0, {}, 10, 11)
    /\ \E notes \in ExtendNoteLists, pedals \in ExtendPedalMsgLists :
          midi_dict = MidiDict(notes, pedals, TwoPianos)
    /\ tokenized = Unused /\ decoded = Unused
    /\ NoQuantize /\ NoAug /\ NoDuration /\ NoEncode

NextExtend == TokenizeMidiDict

SpecExtend == InitExtend /\ [][NextExtend]_vars

----------------------------------------------------------------------------
\* Specification SpecWait: tokenize_midi_dict on two piano notes whose
\* onsets are g ms apart, for the ladders 0, 10, .., 100 and 0, 3, 6, 9.

MaxGap == 260

InitWait ==
    /\ pc = "start"
    /\ tokenizer \in {Tokenizer(FALSE, "none", 8, 0, {}, 10, 11),
                      Tokenizer(FALSE, "none", 8, 0, {}, 3, 4)}
    /\ \E g \in 0..MaxGap :
          midi_dict = MidiDict(<<Note(0, 60, 64, 0, 5), Note(0, 62, 64, g, g + 5)>>,
                               <<>>, TwoPianos)
    /\ tokenized = Unused /\ decoded = Unused
    /\ NoQuantize /\ NoAug /\ NoDuration /\ NoEncode

NextWait == TokenizeMidiDict

SpecWait == InitWait /\ [][NextWait]_vars

----------------------------------------------------------------------------
\* Specification SpecStrided: tokenize_midi_dict with truncate_type
\* "strided" on 1..MaxDrumNotes drum notes (one token each, pitches
\* 35, 36, ...) and a prefix of 0 to 3 instruments.

MaxSeqLen == 6

MaxDrumNotes == 8

StridedTokenizers ==
    {tk \in {Tokenizer(padding, "strided", m, s, {}, 10, 11) :
                padding \in BOOLEAN, m \in 1..MaxSeqLen, s \in 0..MaxSeqLen} :
        ValidTokenizer(tk)}

\* Declarations giving a prefix of 0, 1, 2 and 3 names.
StridedInstrumentMsgs ==
    {SubSeq(<<[channel |-> 0, data |-> 0], [channel |-> 1, data |-> 16],
              [channel |-> 9, data |-> 0]>>, 1, k) : k \in 0..3}

InitStrided ==
    /\ pc = "start"
    /\ tokenizer \in StridedTokenizers
    /\ \E k \in 1..MaxDrumNotes, instrument_msgs \in StridedInstrumentMsgs :
          midi_dict = MidiDict([i \in 1..k |-> Note(9, 34 + i, 64, 0, 5)],
                               <<>>, instrument_msgs)
    /\ tokenized = Unused /\ decoded = Unused
    /\ NoQuantize /\ NoAug /\ NoDuration /\ NoEncode

NextStrided == TokenizeMidiDict

SpecStrided == InitStrided /\ [][NextStrided]_vars

----------------------------------------------------------------------------
\* Specification SpecRoundTrip: tokenize_midi_dict with truncate_type
\* "none", then detokenize_midi_dict on the window returned.  Notes 25 ms
\* apart on channels 0, 1 and 9; a piano, a chromatic instrument and a drum
\* kit declared or not; the chromatic class ignored or not.

MaxNotes == 2

RoundTripNoteLists ==
    {[i \in DOMAIN l |-> Note(l[i][1], l[i][2], 64, 25 * (i - 1), 25 * (i - 1) + 30)] :
        l \in SeqsUpTo({0, 1, 9} \X {40, 60}, MaxNotes)}

RoundTripInstrumentMsgs ==
    SeqsUpTo({[channel |-> 0, data |-> 0], [channel |-> 1, data |-> 8],
              [channel |-> 9, data |-> 0]}, 2)

InitRoundTrip ==
    /\ pc = "start"
    /\ tokenizer \in {Tokenizer(FALSE, "none", 8, 0, ignore, 10, 11) :
                         ignore \in {{}, {"chromatic"}}}
    /\ \E notes \in RoundTripNoteLists, instrument_msgs \in RoundTripInstrumentMsgs :
          midi_dict = MidiDict(notes, <<>>, instrument_msgs)
    /\ tokenized = Unused /\ decoded = Unused
    /\ NoQuantize /\ NoAug /\ NoDuration /\ NoEncode

NextRoundTrip == TokenizeMidiDict \/ DetokenizeMidiDict

SpecRoundTrip == InitRoundTrip /\ [][NextRoundTrip]_vars

----------------------------------------------------------------------------
\* Specification SpecAug: one call of the function export_pitch_aug or
\* export_velocity_aug returned, on a sequence of up to MaxSrcLen tokens.

MaxSrcLen == 2

MaxAugRange == 2

AugTokens ==
    {bos_tok, unk_tok, Str("piano"), Str("drums"),
     Tup2("dur", 10), Tup2("wait", 20), Tup2("drum", 36)}
    \cup {Tup3("piano", pitch, 60) : pitch \in {0, 1, 64, 126, 127}}
    \cup {Tup3("piano", 64, velocity) : velocity \in {0, 10, 20, 110, 120}}

InitAug ==
    /\ pc = "start"
    /\ tokenizer = Tokenizer(FALSE, "none", 8, 0, {}, 10, 11)
    /\ src \in SeqsUpTo(AugTokens, MaxSrcLen)
    /\ aug_range \in 0..MaxAugRange
    /\ aug = Unused
    /\ midi_dict = Unused /\ tokenized = Unused /\ decoded = Unused
    /\ NoQuantize /\ NoDuration /\ NoEncode

\* pitch_aug_seq(src): randint(-_aug_range, _aug_range) draws the offset.
PitchAugSeq ==
    /\ pc = "start"
    /\ \E pitch_aug \in (-aug_range)..aug_range :
          aug' = pitch_aug_seq(src, pitch_aug)
    /\ pc' = "pitch_aug_seq"
    /\ UNCHANGED <<tokenizer, midi_dict, tokenized, decoded, n, sorted_list,
                   closest, src, aug_range,
                   arg_start_tick, arg_end_tick, ret_duration,
                   arg_tokenized_seq, encoded>>

\* velocity_aug_seq(src): the offset is velocity_step times a drawn integer.
VelocityAugSeq ==
    /\ pc = "start"
    /\ \E steps \in (-aug_range)..aug_range :
          aug' = velocity_aug_seq(tokenizer, src, tokenizer.velocity_step * steps)
    /\ pc' = "velocity_aug_seq"
    /\ UNCHANGED <<tokenizer, midi_dict, tokenized, decoded, n, sorted_list,
                   closest, src, aug_range,
                   arg_start_tick, arg_end_tick, ret_duration,
                   arg_tokenized_seq, encoded>>

NextAug == PitchAugSeq \/ VelocityAugSeq

SpecAug == InitAug /\ [][NextAug]_vars

----------------------------------------------------------------------------
\* Specification SpecQuantize: one call of _find_closest_int(n, sorted_list).

MaxLadderValue == 6

MaxLadderLen == 4

\* The strictly ascending ladders over 0..MaxLadderValue.
Ladders ==
    {l \in UNION {[1..k -> 0..MaxLadderValue] : k \in 1..MaxLadderLen} :
        \A i \in 1..(Len(l) - 1) : l[i] < l[i + 1]}

InitQuantize ==
    /\ pc = "start"
    /\ sorted_list \in Ladders
    /\ n \in -2..(MaxLadderValue + 2)
    /\ closest = Unused
    /\ NoTokenize /\ NoAug /\ NoDuration /\ NoEncode

FindClosestInt ==
    /\ pc = "start"
    /\ closest' = _find_closest_int(n, sorted_list)
    /\ pc' = "_find_closest_int"
    /\ UNCHANGED <<tokenizer, midi_dict, tokenized, decoded, n, sorted_list,
                   src, aug_range, aug,
                   arg_start_tick, arg_end_tick, ret_duration,
                   arg_tokenized_seq, encoded>>

NextQuantize == FindClosestInt

SpecQuantize == InitQuantize /\ [][NextQuantize]_vars

----------------------------------------------------------------------------
\* Specification SpecDuration: _get_duration_ms on tempo maps of one to
\* three entries with non-decreasing ticks, the first at tick 0, and every
\* 0 <= start_tick <= end_tick up to one tick past the last possible entry.

MaxTempoTick == 3

MaxTempoMsgs == 3

Tempos == {500000, 1000000}

TempoMaps ==
    {l \in SeqsUpTo([tick : 0..MaxTempoTick, data : Tempos], MaxTempoMsgs) :
        /\ Len(l) >= 1
        /\ l[1].tick = 0
        /\ \A i \in 1..(Len(l) - 1) : l[i].tick <= l[i + 1].tick}

InitDuration ==
    /\ pc = "start"
    /\ \E tempo_msgs \in TempoMaps :
          midi_dict = [MidiDict(<<>>, <<>>, <<>>) EXCEPT !.tempo_msgs = tempo_msgs]
    /\ arg_start_tick \in 0..(MaxTempoTick + 1)
    /\ arg_end_tick \in arg_start_tick..(MaxTempoTick + 1)
    /\ ret_duration = Unused
    /\ tokenizer = Unused /\ tokenized = Unused /\ decoded = Unused
    /\ NoQuantize /\ NoAug /\ NoEncode

\* _get_duration_ms(start_tick, end_tick, tempo_msgs, ticks_per_beat).
GetDurationMs ==
    /\ pc = "start"
    /\ ret_duration' =
          [tick_tempo |-> DurationTickTempo(arg_start_tick, arg_end_tick,
                                            midi_dict.tempo_msgs),
           ms |-> _get_duration_ms(arg_start_tick, arg_end_tick,
                                   midi_dict.tempo_msgs,
                                   midi_dict.ticks_per_beat)]
    /\ pc' = "_get_duration_ms"
    /\ UNCHANGED <<tokenizer, midi_dict, tokenized, decoded, n, sorted_list,
                   closest, src, aug_range, aug, arg_start_tick, arg_end_tick,
                   arg_tokenized_seq, encoded>>

NextDuration == GetDurationMs

SpecDuration == InitDuration /\ [][NextDuration]_vars

----------------------------------------------------------------------------
\* Specification SpecRemove: _remove_instruments on streams with one note
\* and one pedal message on each of the channels 0, 1, 9 and 16, where one
\* channel declares any of the programs 0..127 or the channels 0 and 1
\* declare one program each, under three ignore sets.

MaxProgram == 127

RemoveInstrumentMsgs ==
    {<<>>}
    \cup {<<[channel |-> c, data |-> p]>> : c \in {0, 9, 16}, p \in 0..MaxProgram}
    \cup {<<[channel |-> 0, data |-> p], [channel |-> 1, data |-> q]>> :
             p \in {0, 1, 8}, q \in {0, 1, 8}}

RemoveNotes ==
    <<Note(0, 60, 64, 0, 1), Note(1, 61, 64, 0, 1), Note(9, 40, 64, 0, 1),
      Note(16, 41, 64, 0, 1)>>

RemovePedals ==
    <<[tick |-> 0, channel |-> 0, data |-> 1],
      [tick |-> 0, channel |-> 1, data |-> 1],
      [tick |-> 0, channel |-> 9, data |-> 1],
      [tick |-> 0, channel |-> 16, data |-> 1]>>

InitRemove ==
    /\ pc = "start"
    /\ \E ignore \in {{}, {"piano"}, {"piano", "chromatic", "sfx"}} :
          tokenizer = Tokenizer(FALSE, "none", 8, 0, ignore, 10, 11)
    /\ \E instrument_msgs \in RemoveInstrumentMsgs :
          midi_dict = MidiDict(RemoveNotes, RemovePedals, instrument_msgs)
    /\ tokenized = Unused /\ decoded = Unused
    /\ NoQuantize /\ NoAug /\ NoDuration /\ NoEncode

\* _remove_instruments(midi_dict): the method works on a deep copy (line
\* 203), so the caller's midi_dict stays as it is.
RemoveInstruments ==
    /\ pc = "start"
    /\ tokenized' = [filtered |-> _remove_instruments(tokenizer, midi_dict)]
    /\ pc' = "_remove_instruments"
    /\ UNCHANGED <<tokenizer, midi_dict, decoded, n, sorted_list, closest,
                   src, aug_range, aug, arg_start_tick, arg_end_tick,
                   ret_duration, arg_tokenized_seq, encoded>>

NextRemove == RemoveInstruments

SpecRemove == InitRemove /\ [][NextRemove]_vars

----------------------------------------------------------------------------
\* Specification SpecEncode: tokenize_midi_dict, then encode on every
\* window returned, then decode on the ids.  Piano notes on channel 0 and
\* drum notes of pitch 20 and 40 on channel 9, 25 ms apart, truncate_type
\* "none" or "default", with and without padding.

MaxEncodeNotes == 2

EncodeNoteLists ==
    {[i \in DOMAIN l |-> Note(l[i][1], l[i][2], l[i][3], 25 * (i - 1), 25 * (i - 1) + 30)] :
        l \in SeqsUpTo({<<0, 60, 5>>, <<0, 60, 127>>, <<9, 20, 64>>, <<9, 40, 64>>},
                       MaxEncodeNotes)}

InitEncode ==
    /\ pc = "start"
    /\ tokenizer \in {Tokenizer(padding, truncate_type, 8, 0, {}, 10, 11) :
                         padding \in BOOLEAN, truncate_type \in {"none", "default"}}
    /\ \E notes \in EncodeNoteLists :
          midi_dict = MidiDict(notes, <<>>,
                               <<[channel |-> 0, data |-> 0], [channel |-> 9, data |-> 0]>>)
    /\ tokenized = Unused /\ decoded = Unused
    /\ arg_tokenized_seq = Unused /\ encoded = Unused
    /\ NoQuantize /\ NoAug /\ NoDuration

\* encode(w) for every window w that tokenize_midi_dict returned.
Encode ==
    /\ pc = "tokenized"
    /\ encoded' = [w \in DOMAIN tokenized.windows |->
                      encode(tokenizer, tokenized.windows[w])]
    /\ pc' = "encoded"
    /\ UNCHANGED <<tokenizer, midi_dict, tokenized, decoded, n, sorted_list,
                   closest, src, aug_range, aug, arg_start_tick, arg_end_tick,
                   ret_duration, arg_tokenized_seq>>

\* decode(ids) for the ids of every window.
Decode ==
    /\ pc = "encoded"
    /\ decoded' = [w \in DOMAIN encoded |-> decode(tokenizer, encoded[w])]
    /\ pc' = "decoded"
    /\ UNCHANGED <<tokenizer, midi_dict, tokenized, n, sorted_list, closest,
                   src, aug_range, aug, arg_start_tick, arg_end_tick,
                   ret_duration, arg_tokenized_seq, encoded>>

NextEncode == TokenizeMidiDict \/ Encode \/ Decode

SpecEncode == InitEncode /\ [][NextEncode]_vars

----------------------------------------------------------------------------
\* Specification SpecDetokenize: detokenize_midi_dict on token sequences
\* whose prefix is 0..MaxFill filler tokens ("<P>" or "drums"), an
\* instrument name, 0..2 fillers and possibly a second name (the same or
\* another), followed by bos, one note of pitch 60 with its duration for
\* each name, a drum token of pitch 40 and eos.

MaxFill == 9

DetokenizeNames == {"piano", "organ"}

DetokenizeSeqs ==
    {Repeat(fill, a) \o <<Str(first)>> \o Repeat(fill, b) \o second
        \o <<bos_tok, Tup3(first, 60, 60), Tup2("dur", 10)>>
        \o (IF second = <<>> THEN <<>>
            ELSE <<Tup3(second[1].a, 60, 60), Tup2("dur", 10)>>)
        \o <<Tup2("drum", 40), eos_tok>> :
        fill \in {pad_tok, Str("drums")}, a \in 0..MaxFill, b \in 0..2,
        first \in DetokenizeNames,
        second \in {<<>>} \cup {<<Str(name)>> : name \in DetokenizeNames}}

InitDetokenize ==
    /\ pc = "start"
    /\ tokenizer = Tokenizer(FALSE, "none", 8, 0, {}, 10, 11)
    /\ arg_tokenized_seq \in DetokenizeSeqs
    /\ midi_dict = Unused /\ tokenized = Unused /\ decoded = Unused
    /\ encoded = Unused
    /\ NoQuantize /\ NoAug /\ NoDuration

\* detokenize_midi_dict(tokenized_seq) on a sequence handed in by the
\* caller.
DetokenizeSeq ==
    /\ pc = "start"
    /\ decoded' = detokenize_midi_dict(tokenizer, arg_tokenized_seq)
    /\ pc' = "detokenized"
    /\ UNCHANGED <<tokenizer, midi_dict, tokenized, n, sorted_list, closest,
                   src, aug_range, aug, arg_start_tick, arg_end_tick,
                   ret_duration, arg_tokenized_seq, encoded>>

NextDetokenize == DetokenizeSeq

SpecDetokenize == InitDetokenize /\ [][NextDetokenize]_vars

----------------------------------------------------------------------------
\* Claims about the quantizer (checked under SpecQuantize)

Elements(l) == {l[i] : i \in DOMAIN l}

\* C7: on a non-empty ascending ladder _find_closest_int returns a member of
\* the ladder whose absolute difference to n is minimal over the ladder.
C7_ClosestIsNearest ==
    pc = "_find_closest_int" =>
        /\ closest \in Elements(sorted_list)
        /\ \A x \in Elements(sorted_list) : Abs(closest - n) <= Abs(x - n)

\* C7 witness: a call on a ladder of three or more values where n lies
\* strictly inside the ladder and is not a member of it.
C7_Witness ==
    /\ pc = "_find_closest_int"
    /\ Len(sorted_list) >= 3
    /\ n \notin Elements(sorted_list)
    /\ sorted_list[1] < n /\ n < sorted_list[Len(sorted_list)]
    /\ closest \in Elements(sorted_list)

\* n lies exactly half way between sorted_list[i] and sorted_list[i + 1].
Tie(i) ==
    /\ i \in 1..(Len(sorted_list) - 1)
    /\ sorted_list[i] < n /\ n < sorted_list[i + 1]
    /\ n - sorted_list[i] = sorted_list[i + 1] - n

\* C8 as stated: when n is equidistant from two adjacent ladder values,
\* _find_closest_int returns the lower of the two.
C8_TieReturnsLower ==
    pc = "_find_closest_int" =>
        \A i \in 1..(Len(sorted_list) - 1) : Tie(i) => closest = sorted_list[i]

\* The position in the probe order of the 0-based ladder index j.
ProbeRank(j) ==
    LET ps == Probes(n, sorted_list, 0, Len(sorted_list) - 1)
    IN  CHOOSE r \in DOMAIN ps : ps[r] = j

\* C8 amended: when n is equidistant from two adjacent ladder values, both
\* are probed and _find_closest_int returns the one of the two it probes
\* first, which is the upper one when the upper one is probed first.
C8_TieReturnsFirstProbed ==
    pc = "_find_closest_int" =>
        \A i \in 1..(Len(sorted_list) - 1) :
            Tie(i) =>
                LET ps == Probes(n, sorted_list, 0, Len(sorted_list) - 1)
                IN  /\ \E r \in DOMAIN ps : ps[r] = i - 1
                    /\ \E r \in DOMAIN ps : ps[r] = i
                    /\ closest = IF ProbeRank(i - 1) < ProbeRank(i)
                                 THEN sorted_list[i] ELSE sorted_list[i + 1]

\* C8 witness: a tie in which the upper value is probed first and returned.
C8_Witness ==
    /\ pc = "_find_closest_int"
    /\ \E i \in 1..(Len(sorted_list) - 1) :
          /\ Tie(i)
          /\ ProbeRank(i) < ProbeRank(i - 1)
          /\ closest = sorted_list[i + 1]

----------------------------------------------------------------------------
\* Claims about the round trip (checked under SpecRoundTrip)

Pitches(note_msgs) == [i \in DOMAIN note_msgs |-> note_msgs[i].pitch]

\* C1 as stated: with truncate_type "none", decoding the window returned
\* for a stream with at least one note gives as many notes as the input
\* stream has, with the input notes' pitches in order.
C1_RoundTripKeepsInputNotes ==
    (pc = "detokenized" /\ tokenizer.truncate_type = "none"
        /\ Len(midi_dict.note_msgs) >= 1) =>
        /\ decoded.err = ""
        /\ Len(decoded.note_msgs) = Len(midi_dict.note_msgs)
        /\ Pitches(decoded.note_msgs) = Pitches(midi_dict.note_msgs)

\* C1 amended: with truncate_type "none", whenever tokenize_midi_dict
\* returns, decoding its single window gives as many notes as the stream
\* has after _remove_instruments dropped the channels of the ignored
\* instrument classes, with the pitches of those remaining notes in order.
C1_RoundTripKeepsFilteredNotes ==
    (pc = "detokenized" /\ tokenizer.truncate_type = "none") =>
        /\ Len(tokenized.windows) = 1
        /\ decoded.err = ""
        /\ Len(decoded.note_msgs) = Len(tokenized.filtered.note_msgs)
        /\ Pitches(decoded.note_msgs) = Pitches(tokenized.filtered.note_msgs)

\* C1 witness: a stream of two notes of different pitch, one of them on a
\* removed channel, decoded to the one note that is left.
C1_Witness ==
    /\ pc = "detokenized"
    /\ Len(midi_dict.note_msgs) = 2
    /\ midi_dict.note_msgs[1].pitch # midi_dict.note_msgs[2].pitch
    /\ Len(tokenized.filtered.note_msgs) = 1
    /\ Pitches(decoded.note_msgs) = Pitches(tokenized.filtered.note_msgs)

----------------------------------------------------------------------------
\* Claims about the strided windows (checked under SpecStrided)

Body == <<bos_tok>> \o tokenized.tokenized_seq \o <<eos_tok>>

\* body[offset : offset + width] for 0 <= offset and 0 < width.
BodySlice(offset, width) ==
    [i \in 1..Max(0, Min(Len(Body), offset + width) - offset) |-> Body[offset + i]]

\* The offsets k * s at which the loop emits a window.
LoopOffsets ==
    {k \in 0..Len(Body) :
        k * tokenizer.stride_len
            + (tokenizer.max_seq_len - Len(tokenized.present_instruments))
          < Len(Body)}

\* C2: under "strided" with prefix length p < m, window k is
\* prefix + body[k*s : k*s + (m-p)], the last one possibly right-padded, and
\* there are 1 + |{k : k*s + (m-p) < len(body)}| windows; p = 2,
\* len(body) = 10, m = 6, s = 2 gives 4 windows at offsets 0, 2, 4, 6.
C2_StridedWindows ==
    (pc = "tokenized" /\ tokenizer.truncate_type = "strided"
        /\ Len(tokenized.present_instruments) < tokenizer.max_seq_len) =>
        LET p == Len(tokenized.present_instruments)
            m == tokenizer.max_seq_len
            s == tokenizer.stride_len
            ws == tokenized.windows
        IN  /\ Len(ws) = 1 + Cardinality(LoopOffsets)
            /\ \A k \in 0..(Len(ws) - 2) :
                  ws[k + 1] = tokenized.present_instruments \o BodySlice(k * s, m - p)
            /\ LET last == tokenized.present_instruments
                           \o BodySlice((Len(ws) - 1) * s, m - p)
               IN  \/ ws[Len(ws)] = last
                   \/ /\ tokenizer.padding
                      /\ Len(last) < m
                      /\ ws[Len(ws)] = last \o [i \in 1..(m - Len(last)) |-> pad_tok]
            /\ (p = 2 /\ Len(Body) = 10 /\ m = 6 /\ s = 2) =>
                  /\ Len(ws) = 4
                  /\ \A k \in 0..3 :
                        ws[k + 1] = tokenized.present_instruments
                                    \o SubSeq(Body, 2 * k + 1, 2 * k + 4)

\* C2 witness: the case p = 2, len(body) = 10, m = 6, s = 2 with its four
\* windows of six tokens.
C2_Witness ==
    /\ pc = "tokenized"
    /\ Len(tokenized.present_instruments) = 2
    /\ Len(Body) = 10
    /\ tokenizer.max_seq_len = 6 /\ tokenizer.stride_len = 2
    /\ Len(tokenized.windows) = 4
    /\ \A k \in 1..4 : Len(tokenized.windows[k]) = 6
    /\ tokenized.windows[4][6] = eos_tok

\* C3: under "strided", for every tokenizer that passed construction and
\* every stream, every window but the last has exactly max_seq_len tokens,
\* and with padding the last one has max_seq_len tokens too.
C3_WindowLengths ==
    (pc = "tokenized" /\ tokenizer.truncate_type = "strided") =>
        /\ \A k \in 1..(Len(tokenized.windows) - 1) :
              Len(tokenized.windows[k]) = tokenizer.max_seq_len
        /\ tokenizer.padding =>
              Len(tokenized.windows[Len(tokenized.windows)]) = tokenizer.max_seq_len

----------------------------------------------------------------------------
\* Claims about the wait tokens (checked under SpecWait)

WaitValues(step) == [i \in DOMAIN step.wait_toks |-> step.wait_toks[i].b]

\* C4: for a raw gap g >= 0 the wait tokens are non-zero ladder members
\* <= max_time_step, all but possibly the last equal max_time_step, the
\* loop emits the least n tokens with g - n * max_time_step <= max_time_step,
\* and the remainder is emitted exactly when it quantizes to non-zero
\* (250 ms with step 10 and maximum 100: wait 100, wait 100, wait 50).
C4_WaitSplitting ==
    pc = "tokenized" =>
        LET step == tokenized.steps[1]
            g == step.raw_wait
            mx == max_time_step(tokenizer)
            ladder == {time_step_quantizations(tokenizer)[i] :
                          i \in 1..tokenizer.num_time_step}
            w == WaitValues(step)
            rest == g - step.loops * mx
            nearest == {x \in ladder : \A y \in ladder : Abs(x - rest) <= Abs(y - rest)}
        IN  /\ g >= 0
            /\ \A i \in DOMAIN w : w[i] \in ladder /\ w[i] # 0 /\ w[i] <= mx
            /\ \A i \in 1..(Len(w) - 1) : w[i] = mx
            /\ rest <= mx
            /\ \A k \in 0..(step.loops - 1) : g - k * mx > mx
            /\ Len(w) \in {step.loops, step.loops + 1}
            /\ Len(w) = step.loops + 1 => w[Len(w)] \in nearest
            /\ Len(w) = step.loops => 0 \in nearest
            /\ 0 \notin nearest => Len(w) = step.loops + 1
            /\ (g = 250 /\ tokenizer.min_time_step = 10 /\ mx = 100) =>
                  w = <<100, 100, 50>>
            /\ SubSeq(tokenized.tokenized_seq, 3, 2 + Len(w)) = step.wait_toks

\* C4 witness: the 250 ms gap split into wait 100, wait 100, wait 50.
C4_Witness ==
    /\ pc = "tokenized"
    /\ tokenized.steps[1].raw_wait = 250
    /\ max_time_step(tokenizer) = 100
    /\ tokenized.steps[1].loops = 2
    /\ WaitValues(tokenized.steps[1]) = <<100, 100, 50>>

----------------------------------------------------------------------------
\* Claims about the pedal intervals (checked under SpecPedal)

\* C5: for pedal events ordered by tick and any note list, every interval
\* _build_pedal_intervals returns has start_tick < end_tick and no two
\* intervals of one channel overlap.
C5_IntervalsWellFormed ==
    pc = "tokenized" =>
        \A c \in Channels :
            LET ivs == tokenized.intervals[c]
            IN  /\ \A i \in DOMAIN ivs : ivs[i][1] < ivs[i][2]
                /\ \A i, j \in DOMAIN ivs :
                      i < j => (ivs[i][2] <= ivs[j][1] \/ ivs[j][2] <= ivs[i][1])

\* C9: tokenize_midi_dict on a stream without notes ends in
\* EmptySequenceError, raised before any pedal processing, and returns no
\* window.
C9_EmptySequenceError ==
    (pc # "start" /\ midi_dict.note_msgs = <<>>) =>
        /\ pc = "raised"
        /\ tokenized.err = "EmptySequenceError"
        /\ tokenized.pedal_msgs_scanned = 0
        /\ tokenized.windows = <<>>

----------------------------------------------------------------------------
\* Claims about the pedal extension (checked under SpecExtend)

\* C6: the end tick used for a non-drum note (channel c, onset s, end e) is
\* the end E of the pedal interval [S, E) of channel c with S <= s < E when
\* e < E, and e otherwise; a note whose onset lies in no interval of its own
\* channel keeps its end, and the end tick never decreases.
C6_PedalExtension ==
    pc = "tokenized" =>
        \A i \in DOMAIN tokenized.steps :
            LET msg == tokenized.filtered.note_msgs[i]
                ivs == tokenized.intervals[msg.channel]
                covering == {j \in DOMAIN ivs :
                                ivs[j][1] <= msg.start /\ msg.start < ivs[j][2]}
                used == tokenized.steps[i].end_tick
            IN  ~tokenized.steps[i].drum =>
                   /\ \A j \in covering : msg.end < ivs[j][2] => used = ivs[j][2]
                   /\ (\A j \in covering : ~(msg.end < ivs[j][2])) => used = msg.end
                   /\ covering = {} => used = msg.end
                   /\ used >= msg.end

\* C6 witness: a note extended to the end of the pedal interval that holds
\* its onset, next to a note on the other channel that is left alone.
C6_Witness ==
    /\ pc = "tokenized"
    /\ Len(tokenized.steps) = 2
    /\ tokenized.filtered.note_msgs[1].channel = 0
    /\ tokenized.steps[1].end_tick > tokenized.filtered.note_msgs[1].end
    /\ \E j \in DOMAIN tokenized.intervals[0] :
          /\ tokenized.intervals[0][j][1] <= tokenized.filtered.note_msgs[1].start
          /\ tokenized.steps[1].end_tick = tokenized.intervals[0][j][2]
    /\ tokenized.steps[2].end_tick = tokenized.filtered.note_msgs[2].end

----------------------------------------------------------------------------
\* Claims about the augmentation functions (checked under SpecAug)

IsNote(tok) == ~Unchanged(tok)

\* C10: pitch augmentation returns a sequence of the same length with no
\* note pitch outside [0, 127], a note shifted out of range becoming the
\* unknown token; velocity augmentation returns note velocities within
\* [velocity_step, max_velocity]; both leave drum, duration, wait,
\* instrument-name and special tokens unchanged.
C10_AugmentationBounded ==
    /\ pc = "pitch_aug_seq" =>
          /\ Len(aug) = Len(src)
          /\ \A i \in DOMAIN aug : IsNote(aug[i]) => aug[i].b \in 0..127
          /\ \E d \in (-aug_range)..aug_range :
                \A i \in DOMAIN src :
                    aug[i] = IF ~IsNote(src[i]) THEN src[i]
                             ELSE IF src[i].b + d \in 0..127
                             THEN Tup3(src[i].a, src[i].b + d, src[i].c)
                             ELSE unk_tok
    /\ pc = "velocity_aug_seq" =>
          /\ Len(aug) = Len(src)
          /\ \A i \in DOMAIN src :
                IF IsNote(src[i])
                THEN /\ aug[i].t = "tuple3"
                     /\ aug[i].a = src[i].a /\ aug[i].b = src[i].b
                     /\ aug[i].c >= tokenizer.velocity_step
                     /\ aug[i].c <= max_velocity(tokenizer)
                ELSE aug[i] = src[i]

\* C10 witness: a note at pitch 127 shifted out of range and replaced by
\* the unknown token, beside a drum token that is kept.
C10_Witness ==
    /\ pc = "pitch_aug_seq"
    /\ Len(src) = 2
    /\ src[1] = Tup3("piano", 127, 60) /\ aug[1] = unk_tok
    /\ src[2] = Tup2("drum", 36) /\ aug[2] = src[2]

----------------------------------------------------------------------------
\* Claims about the duration calculator (checked under SpecDuration)

\* The tempo of the last entry of tempo_msgs with tick <= t.
tempo_in_effect(tempo_msgs, t) ==
    LET at == {i \in DOMAIN tempo_msgs : tempo_msgs[i].tick <= t}
        last == CHOOSE i \in at : \A j \in at : j <= i
    IN  tempo_msgs[last].data

\* The sum of tempo_in_effect(t) over the ticks t of [from, to).
RECURSIVE TempoSum(_, _, _)
TempoSum(tempo_msgs, from, to) ==
    IF from >= to THEN 0
    ELSE tempo_in_effect(tempo_msgs, from) + TempoSum(tempo_msgs, from + 1, to)

\* C11: for a tempo map with non-decreasing ticks starting at tick 0 and
\* 0 <= start_tick <= end_tick, _get_duration_ms returns, before the final
\* rounding, the sum over the ticks t of [start_tick, end_tick) of
\* tempo_in_effect(t) / ticks_per_beat microseconds; with both ticks after
\* the last entry of a map of two or more entries that is
\* (end_tick - start_tick) times the last tempo; the result is never
\* negative.
C11_DurationIsTempoSum ==
    pc = "_get_duration_ms" =>
        LET tempo_msgs == midi_dict.tempo_msgs
            last == tempo_msgs[Len(tempo_msgs)]
        IN  /\ ret_duration.tick_tempo
                  = TempoSum(tempo_msgs, arg_start_tick, arg_end_tick)
            /\ (Len(tempo_msgs) >= 2 /\ arg_start_tick > last.tick) =>
                  ret_duration.tick_tempo
                      = (arg_end_tick - arg_start_tick) * last.data
            /\ ret_duration.tick_tempo >= 0
            /\ ret_duration.ms >= 0

----------------------------------------------------------------------------
\* Claims about _remove_instruments (checked under SpecRemove)

\* The channel of msg is no drum channel and carries a declaration of a
\* program of an ignored instrument class.
OnIgnoredChannel(msg) ==
    /\ msg.channel \notin {9, 16}
    /\ \E i \in DOMAIN midi_dict.instrument_msgs :
          /\ midi_dict.instrument_msgs[i].channel = msg.channel
          /\ InstrumentClasses[(midi_dict.instrument_msgs[i].data \div 8) + 1]
                \in tokenizer.ignore_instruments

NotIgnored(msgs) == SelectSeq(msgs, LAMBDA msg : ~OnIgnoredChannel(msg))

\* C12: for every program 0..127 _remove_instruments drops an event exactly
\* when its channel is no drum channel and carries a declaration of a
\* program of an ignored class; events on channels 9 and 16 and events
\* without a channel are kept.
C12_DroppedExactlyIgnored ==
    pc = "_remove_instruments" =>
        /\ tokenized.filtered.note_msgs = NotIgnored(midi_dict.note_msgs)
        /\ tokenized.filtered.pedal_msgs = NotIgnored(midi_dict.pedal_msgs)
        /\ tokenized.filtered.instrument_msgs
              = NotIgnored(midi_dict.instrument_msgs)
        /\ tokenized.filtered.tempo_msgs = midi_dict.tempo_msgs

----------------------------------------------------------------------------
\* Claims about the closing of open pedals (checked under SpecPedal)

\* The intervals of channel c as the design describes them: an "on" while
\* the pedal is up opens at its tick, an "off" while it is down closes the
\* interval, every other message changes nothing, and a pedal still down
\* after the last message is closed at final.  open is <<>> or <<tick>>.
RECURSIVE DesignIntervals(_, _, _, _, _, _)
DesignIntervals(pedal_msgs, i, c, open, done, final) ==
    IF i > Len(pedal_msgs)
    THEN IF open = <<>> THEN done ELSE Append(done, <<open[1], final>>)
    ELSE LET msg == pedal_msgs[i]
         IN  IF msg.channel = c /\ msg.data = 1 /\ open = <<>>
             THEN DesignIntervals(pedal_msgs, i + 1, c, <<msg.tick>>, done, final)
             ELSE IF msg.channel = c /\ msg.data = 0 /\ open # <<>>
             THEN DesignIntervals(pedal_msgs, i + 1, c, <<>>,
                                  Append(done, <<open[1], msg.tick>>), final)
             ELSE DesignIntervals(pedal_msgs, i + 1, c, open, done, final)

\* The latest end tick over all note events.
LatestNoteEnd(note_msgs) ==
    CHOOSE f \in {note_msgs[i].end : i \in DOMAIN note_msgs} :
        \A i \in DOMAIN note_msgs : note_msgs[i].end <= f

\* C13: every channel whose pedal is still down at the end of the scan gets
\* one final interval [open_tick, F], F the latest end tick over all note
\* events in whatever order they are listed; a second "on" while the pedal
\* is down and an "off" while it is up change nothing.
C13_OpenPedalClosedAtLatestEnd ==
    pc = "tokenized" =>
        \A c \in Channels :
            tokenized.intervals[c]
                = DesignIntervals(tokenized.filtered.pedal_msgs, 1, c, <<>>, <<>>,
                                  LatestNoteEnd(tokenized.filtered.note_msgs))

----------------------------------------------------------------------------
\* Claims about the instrument prefix (checked under SpecRoundTrip)

\* The filtered stream has an event on a drum channel.
DrumChannelEvent(md) ==
    \/ \E i \in DOMAIN md.note_msgs : md.note_msgs[i].channel \in {9, 16}
    \/ \E i \in DOMAIN md.pedal_msgs : md.pedal_msgs[i].channel \in {9, 16}
    \/ \E i \in DOMAIN md.instrument_msgs :
          md.instrument_msgs[i].channel \in {9, 16}

\* C14: the prefix tokenize_midi_dict produces holds each name at most
\* once, holds "drums" exactly when the filtered stream has an event on
\* channel 9 or 16 (note events alone included), and holds "drums" whenever
\* the body has a drum token.
C14_PrefixNamesDrums ==
    pc = "tokenized" =>
        LET prefix == tokenized.present_instruments
            has_drums == \E i \in DOMAIN prefix : prefix[i] = Str("drums")
        IN  /\ \A i, j \in DOMAIN prefix : i # j => prefix[i] # prefix[j]
            /\ has_drums <=> DrumChannelEvent(tokenized.filtered)
            /\ (\E k \in DOMAIN tokenized.tokenized_seq :
                    /\ tokenized.tokenized_seq[k].t = "tuple2"
                    /\ tokenized.tokenized_seq[k].a = "drum") => has_drums

----------------------------------------------------------------------------
\* Claims about the vocabulary (checked under SpecEncode)

\* C15: every token tokenize_midi_dict emits is a member of the vocabulary,
\* so decode(encode(w)) = w for every window w returned, no token being
\* turned into the unknown token.
C15_WindowsSurviveEncoding ==
    pc = "decoded" =>
        \A w \in DOMAIN tokenized.windows :
            /\ \A i \in DOMAIN tokenized.windows[w] :
                  tok_to_id(tokenizer, tokenized.windows[w][i]) >= 0
            /\ decoded[w] = tokenized.windows[w]

----------------------------------------------------------------------------
\* Claims about the coverage of the strided windows (checked under
\* SpecStrided, where the tokens of the body are pairwise different)

\* The positions of the body whose token window k holds.
Covered(k) ==
    {j \in DOMAIN Body :
        \E i \in DOMAIN tokenized.windows[k] : tokenized.windows[k][i] = Body[j]}

\* C16: under "strided", for every configuration accepted at construction,
\* every position of [bos] + tokens + [eos] is in some window, consecutive
\* windows leave no gap between them, and the last window holds eos.
C16_WindowsCoverBody ==
    (pc = "tokenized" /\ tokenizer.truncate_type = "strided") =>
        LET ws == tokenized.windows
        IN  /\ \A j \in DOMAIN Body : \E k \in DOMAIN ws : j \in Covered(k)
            /\ \A k \in 1..(Len(ws) - 1) :
                  /\ Covered(k) # {} /\ Covered(k + 1) # {}
                  /\ \E a \in Covered(k), b \in Covered(k + 1) : b <= a + 1
            /\ \E i \in DOMAIN ws[Len(ws)] : ws[Len(ws)][i] = eos_tok

----------------------------------------------------------------------------
\* Claims about the channels of the decoder (checked under SpecDetokenize)

\* The instrument names of the leading prefix: those before the first
\* token that is neither a name nor a special token nor "drums".
PrefixNames ==
    LET body == {i \in DOMAIN arg_tokenized_seq : arg_tokenized_seq[i].t # "str"}
        first == CHOOSE i \in body : \A j \in body : i <= j
    IN  SelectSeq(SubSeq(arg_tokenized_seq, 1, first - 1),
                  LAMBDA tok : tok.a \in instrument_names)

\* C17: when the names of the leading prefix are distinct, whatever its
\* length and the special or "drums" tokens between them,
\* detokenize_midi_dict gives distinct names distinct channels and gives no
\* non-drum instrument the drum channel 9, so no decoded non-drum note is
\* on channel 9; a prefix that repeats a name makes decoding fail.
C17_ChannelsDistinctFromDrum ==
    pc = "detokenized" =>
        IF \A i, j \in DOMAIN PrefixNames : i # j => PrefixNames[i] # PrefixNames[j]
        THEN /\ decoded.err = ""
             /\ \A x, y \in DOMAIN decoded.instrument_to_channel :
                   x # y => decoded.instrument_to_channel[x]
                              # decoded.instrument_to_channel[y]
             /\ \A x \in DOMAIN decoded.instrument_to_channel :
                   x # "drum" => decoded.instrument_to_channel[x] # 9
             /\ \A i \in DOMAIN decoded.note_msgs :
                   decoded.note_msgs[i].pitch = 60
                       => decoded.note_msgs[i].channel # 9
        ELSE decoded.err # ""

====
